---- MODULE Spec2Model ----
(***************************************************************************)
(* Model of kok/splash_animation.py: the splash animation of Tayfa.        *)
(*                                                                         *)
(* Two families of specifications live here.                               *)
(*   Spec / FairSpec / AsyncSpec : the driver show_splash() as a state     *)
(*       machine, one program counter per invocation, over the process-    *)
(*       wide pygame state that every invocation shares.                   *)
(*   PureSpec : the arithmetic of one frame (alpha envelope, face colour,  *)
(*       perspective projection, the per-face draw block) applied to       *)
(*       inputs drawn from bounded sets.                                   *)
(*                                                                         *)
(* Reals are fixed-point integers: a coordinate c is stored as c * FP.     *)
(* int() of Python truncates toward zero and is modelled by TruncDiv.      *)
(***************************************************************************)
EXTENDS Integers, Sequences, FiniteSets, TLC

----------------------------------------------------------------------------
(* Program constants *)

TOTAL_DURATION_MS == 3000

FPS == 60

FRAME_INTERVAL == 1000 \div FPS

LetterSize == 150

DefaultDistance == 500

(* Fixed-point scale of coordinates and of sin/cos values. *)
FP == 100

----------------------------------------------------------------------------
(* Bounds of the model *)

(* A frame that takes much longer than the 60 fps cadence (ms). *)
SlowFrame == 375

(* The frame time of the two-invocation specification (ms). *)
CoarseTick == 1500

(* Largest screen width/height and projection distance tried by PureSpec. *)
MaxDim == 6

MaxDist == 3

(* Face average depths tried by PureSpec: -MaxDepth .. MaxDepth. *)
MaxDepth == 160

----------------------------------------------------------------------------
(* Arithmetic helpers *)

Abs(n) == IF n < 0 THEN -n ELSE n

(* int(a / b) of Python for b # 0: truncation toward zero. *)
TruncDiv(a, b) ==
    IF (a >= 0) = (b > 0) THEN Abs(a) \div Abs(b) ELSE -(Abs(a) \div Abs(b))

Clamp(lo, hi, x) == IF x < lo THEN lo ELSE IF x > hi THEN hi ELSE x

----------------------------------------------------------------------------
(* Alpha envelope, lines 187-202.                                          *)
(* progress = elapsed / 3000 is a double; progress < 0.2 iff elapsed < 600 *)
(* and progress > 0.8 iff elapsed > 2400 (600/3000 and 2400/3000 round to  *)
(* the same doubles as the literals 0.2 and 0.8).                          *)

(* Elapsed values at which the double 255 * (progress / 0.2), resp.        *)
(* 255 * (1.0 - fade_progress), lands just below the exact integer value,  *)
(* so that int() yields one less than the exact quotient.                  *)
RoundedDown == {120, 240, 480, 2920}

FadeInBound == TOTAL_DURATION_MS \div 5

FadeOutBound == (4 * TOTAL_DURATION_MS) \div 5

FloatInt(e, exact) == IF e \in RoundedDown THEN exact - 1 ELSE exact

(* The envelope with the fade-out starting at 2500 ms, the value of the    *)
(* unused FADE_OUT_START of line 135, instead of at progress 0.8.          *)
AlphaEnvelopeLateFade(elapsed) ==
    IF elapsed < FadeInBound
      THEN FloatInt(elapsed, (255 * elapsed) \div FadeInBound)
    ELSE IF elapsed > (5 * TOTAL_DURATION_MS) \div 6
      THEN (255 * (TOTAL_DURATION_MS - elapsed)) \div (TOTAL_DURATION_MS \div 6)
    ELSE 255

AlphaEnvelope(elapsed) ==
    IF elapsed < FadeInBound
      THEN FloatInt(elapsed, (255 * elapsed) \div FadeInBound)
    ELSE IF elapsed > FadeOutBound
      THEN FloatInt(elapsed,
             (255 * (TOTAL_DURATION_MS - elapsed)) \div FadeInBound)
    ELSE 255

(* int(alpha * 0.3), line 273 *)
OutlineAlpha(alpha) == (3 * alpha) \div 10

----------------------------------------------------------------------------
(* Face colour, lines 249-267.  avg_z is the rational zn / zd, zd > 0.     *)
(* color_progress = clamp((avg_z + 150) / 300, 0, 1) = cpn / cpd.          *)
(* A channel whose exact value is a whole number may come out one lower,   *)
(* because the double arithmetic can land just below it; ChannelInt gives  *)
(* the set of values int() can produce.                                    *)

ChannelInt(n, d) ==
    IF n > 0 /\ n % d = 0 THEN {n \div d, (n \div d) - 1}
                          ELSE {TruncDiv(n, d)}

(* color_progress without the clamp of line 255. *)
ColorProgressUnclamped(zn, zd) == zn + 150 * zd

ColorProgressNum(zn, zd) == Clamp(0, 300 * zd, zn + 150 * zd)

FaceColors(zn, zd, alpha) ==
    LET cpn == ColorProgressNum(zn, zd)
        cpd == 300 * zd
        t   == 2 * cpn - cpd
    IN  IF 2 * cpn < cpd
          THEN { <<r, g, 255, alpha>> :
                   r \in ChannelInt(200 * cpn, cpd),
                   g \in ChannelInt(255 * cpd - 310 * cpn, cpd) }
          ELSE { <<c[1], c[2], c[3], alpha>> :
                   c \in ChannelInt(100 * cpd + 155 * t, cpd)
                         \X ChannelInt(100 * cpd - 100 * t, cpd)
                         \X ChannelInt(255 * cpd - 105 * t, cpd) }

----------------------------------------------------------------------------
(* Geometry, lines 52-89.  Vertices are <<x, y, z>> in fixed point.        *)

CreateLetterT(size) ==
    LET thickness == (size * FP * 2) \div 10
        top_height == (size * FP * 8) \div 10
        bottom_bar_width == (size * FP * 12) \div 10
        hb == bottom_bar_width \div 2
        ht == thickness \div 2
    IN  << <<-hb, top_height, -ht>>,
           <<hb, top_height, -ht>>,
           <<hb, top_height - thickness, -ht>>,
           <<-hb, top_height - thickness, -ht>>,
           <<-hb, top_height, ht>>,
           <<hb, top_height, ht>>,
           <<hb, top_height - thickness, ht>>,
           <<-hb, top_height - thickness, ht>>,
           <<-ht, top_height - thickness, -ht>>,
           <<ht, top_height - thickness, -ht>>,
           <<ht, -top_height, -ht>>,
           <<-ht, -top_height, -ht>>,
           <<-ht, top_height - thickness, ht>>,
           <<ht, top_height - thickness, ht>>,
           <<ht, -top_height, ht>>,
           <<-ht, -top_height, ht>> >>

(* The face table of lines 216-235; indices are 0-based as in the code. *)
Faces ==
    << <<0, 1, 2, 3>>, <<4, 5, 6, 7>>, <<0, 1, 5, 4>>, <<1, 2, 6, 5>>,
       <<2, 3, 7, 6>>, <<3, 0, 4, 7>>, <<8, 9, 10, 11>>, <<12, 13, 14, 15>>,
       <<8, 9, 13, 12>>, <<9, 10, 14, 13>>, <<10, 11, 15, 14>>,
       <<11, 8, 12, 15>> >>

----------------------------------------------------------------------------
(* Rotation, lines 92-101 and 191.                                         *)
(* rotation_angle = progress * 4 * pi: an angle is kept as the elapsed     *)
(* time that produces it, so a full turn is TOTAL_DURATION_MS / 2 units.   *)
(* math.sin is modelled in fixed point by Bhaskara's rational formula      *)
(* sin(pi*u) = 16u(1-u) / (5 - 4u(1-u)), which is exact at every quarter   *)
(* turn and within 0.002 elsewhere; math.cos is sin shifted a quarter.     *)

Turn == TOTAL_DURATION_MS \div 2

HalfTurn == Turn \div 2

SinHalf(m) ==
    LET p == m * (HalfTurn - m)
    IN  (16 * p * FP) \div (5 * HalfTurn * HalfTurn - 4 * p)

SinFP(a) ==
    LET m == a % Turn
    IN  IF m < HalfTurn THEN SinHalf(m) ELSE -SinHalf(m - HalfTurn)

CosFP(a) == SinFP(a + HalfTurn \div 2)

RotationAngle(elapsed) == elapsed

RotateVertex(vertex, angle_y) ==
    LET cos_a == CosFP(angle_y)
        sin_a == SinFP(angle_y)
    IN  << TruncDiv(vertex[1] * cos_a - vertex[3] * sin_a, FP),
           vertex[2],
           TruncDiv(vertex[1] * sin_a + vertex[3] * cos_a, FP) >>

----------------------------------------------------------------------------
(* Perspective projection, lines 104-113.                                  *)
(* scale = distance / (distance + z); with z = Z / FP this is              *)
(* distance * FP / den, den = distance * FP + Z, and                       *)
(* screen_x = int(width / 2 + x * scale)                                   *)
(*          = int((width * den + 2 * X * distance) / (2 * den)).           *)
(* The result is ZeroDivisionError when distance + z = 0.                  *)

(* The exception of a division by zero; no projected vertex is empty. *)
ZeroDivisionError == << >>

(* The projection with round() in place of int(). *)
Project3dTo2dRounded(vertex, screen_width, screen_height, distance) ==
    LET den == distance * FP + vertex[3]
    IN  IF den = 0 THEN ZeroDivisionError
        ELSE << TruncDiv(screen_width * den + 2 * vertex[1] * distance + den,
                         2 * den),
                TruncDiv(screen_height * den - 2 * vertex[2] * distance + den,
                         2 * den),
                vertex[3] >>

Project3dTo2d(vertex, screen_width, screen_height, distance) ==
    LET den == distance * FP + vertex[3]
    IN  IF den = 0 THEN ZeroDivisionError
        ELSE << TruncDiv(screen_width * den + 2 * vertex[1] * distance,
                         2 * den),
                TruncDiv(screen_height * den - 2 * vertex[2] * distance,
                         2 * den),
                vertex[3] >>

(* Lines 208-212: rotate and project the vertices of the letter one after  *)
(* the other, appending each to projected_vertices.  The result is         *)
(* ZeroDivisionError when some projection divides by zero.                 *)
RECURSIVE ProjectUpTo(_, _, _, _, _)
ProjectUpTo(k, letter_t, elapsed, screen_width, screen_height) ==
    IF k = 0 THEN << >>
    ELSE Append(ProjectUpTo(k - 1, letter_t, elapsed, screen_width,
                            screen_height),
                Project3dTo2d(RotateVertex(letter_t[k], RotationAngle(elapsed)),
                              screen_width, screen_height, DefaultDistance))

ProjectedVertices(letter_t, elapsed, screen_width, screen_height) ==
    LET pv == ProjectUpTo(Len(letter_t), letter_t, elapsed, screen_width,
                          screen_height)
    IN  IF \E i \in 1..Len(letter_t) : pv[i] = ZeroDivisionError
          THEN ZeroDivisionError ELSE pv

----------------------------------------------------------------------------
(* The per-face draw block, lines 237-275.                                 *)
(* pygame.draw.polygon is a library call: each call either draws ("ok"),   *)
(* raises ValueError or IndexError (caught at line 274, the face's         *)
(* remaining draw is skipped) or raises another exception ("error", which  *)
(* leaves the loop for the handler of line 286).  outcome[i] is the pair   *)
(* of outcomes of the fill call and the outline call of face i.            *)

PolygonOutcomes == {"ok", "ValueError", "IndexError", "error"}

Skipped == {"ValueError", "IndexError"}

(* projected_vertices[idx] of Python: a negative index counts from the end *)
PyIndex(seq, idx) == IF idx >= 0 THEN seq[idx + 1] ELSE seq[Len(seq) + idx + 1]

(* Lines 242-246: the indices of a face that pass idx < len(...) *)
GatheredIndices(face, pv) == SelectSeq(face, LAMBDA idx : idx < Len(pv))

RECURSIVE SumZ(_, _)
SumZ(g, pv) ==
    IF g = << >> THEN 0 ELSE PyIndex(pv, Head(g))[3] + SumZ(Tail(g), pv)

RECURSIVE PointsOf(_, _)
PointsOf(g, pv) ==
    IF g = << >> THEN << >>
    ELSE <<  <<PyIndex(pv, Head(g))[1], PyIndex(pv, Head(g))[2]>>  >>
         \o PointsOf(Tail(g), pv)

(* Lines 239-246 for one face: points and z_values.  raises says that an   *)
(* index below -len(projected_vertices) made line 244 raise IndexError;    *)
(* zsum is sum(z_values), so avg_z is zsum / (count * FP).                 *)
GatherFace(face, pv) ==
    LET g == GatheredIndices(face, pv)
        bad == \E k \in 1..Len(g) : g[k] < -Len(pv)
    IN  [raises |-> bad,
         count |-> Len(g),
         points |-> IF bad THEN << >> ELSE PointsOf(g, pv),
         zsum |-> IF bad THEN 0 ELSE SumZ(g, pv)]

RECURSIVE GatherUpTo(_, _, _)
GatherUpTo(k, faces, pv) ==
    IF k = 0 THEN << >>
    ELSE Append(GatherUpTo(k - 1, faces, pv), GatherFace(faces[k], pv))

GatherFaces(faces, pv) == GatherUpTo(Len(faces), faces, pv)

(* Lines 248-275 for one gathered face: the draw calls it adds and         *)
(* whether the loop goes on.                                               *)
DrawFace(i, gf, alpha, oc) ==
    IF gf.raises
      THEN [status |-> "IndexError", draws |-> << >>]
    ELSE IF gf.count # 4
      THEN [status |-> "ok", draws |-> << >>]
    ELSE LET fill == [face |-> i, call |-> "fill", points |-> gf.points,
                      zsum |-> gf.zsum, alpha |-> alpha]
             edge == [face |-> i, call |-> "outline", points |-> gf.points,
                      zsum |-> gf.zsum, alpha |-> OutlineAlpha(alpha)]
         IN  IF oc[1] = "error"
               THEN [status |-> "error", draws |-> << >>]
             ELSE IF oc[1] \in Skipped
               THEN [status |-> "ok", draws |-> << >>]
             ELSE IF oc[2] = "error"
               THEN [status |-> "error", draws |-> <<fill>>]
             ELSE IF oc[2] \in Skipped
               THEN [status |-> "ok", draws |-> <<fill>>]
             ELSE [status |-> "ok", draws |-> <<fill, edge>>]

(* The loop of line 238 over the gathered faces, from face i on. *)
RECURSIVE DrawFrom(_, _, _, _, _)
DrawFrom(i, gathered, alpha, outcome, draws) ==
    IF i > Len(gathered) THEN [status |-> "ok", draws |-> draws]
    ELSE LET r == DrawFace(i, gathered[i], alpha, outcome[i])
         IN  IF r.status # "ok"
               THEN [status |-> r.status, draws |-> draws \o r.draws]
               ELSE DrawFrom(i + 1, gathered, alpha, outcome,
                             draws \o r.draws)

DrawFaces(gathered, alpha, outcome) ==
    DrawFrom(1, gathered, alpha, outcome, << >>)

FillsOf(draws) == {draws[k].face : k \in {j \in 1..Len(draws) : draws[j].call = "fill"}}

OutlinesOf(draws) == {draws[k].face : k \in {j \in 1..Len(draws) : draws[j].call = "outline"}}

(* The outcomes tried: every call succeeds, or one call of one face fails. *)
AllOk(n) == [i \in 1..n |-> <<"ok", "ok">>]

OneFault(n) ==
    { [i \in 1..n |-> IF i = f THEN oc ELSE <<"ok", "ok">>] :
        f \in 1..n,
        oc \in ({"ok"} \X (PolygonOutcomes \ {"ok"}))
               \cup ((PolygonOutcomes \ {"ok"}) \X {"ok"}) }

FaultPatterns(n) == {AllOk(n)} \cup OneFault(n)

----------------------------------------------------------------------------
(* The driver: show_splash() as a state machine.                           *)

VARIABLES
    pc,         \* per invocation: where show_splash stands
    running,    \* per invocation: the loop flag of line 167
    start_time, \* per invocation: None, or the tick read at line 179
    result,     \* per invocation: what show_splash gave its caller
    screen,     \* per invocation: <<screen_width, screen_height>>
    projected,  \* per invocation: projected_vertices of line 208
    lastFrame,  \* per invocation: the frame of the current iteration
    hist,       \* per invocation: what the invocation has done so far
    now,        \* pygame.time.get_ticks(), milliseconds
    pgInit,     \* process-wide: pygame is initialised
    display,    \* process-wide: the invocation whose set_mode made the
                \* current display surface, or "none"
    app         \* PureSpec: the last function application

driverVars ==
    <<pc, running, start_time, result, screen, projected, lastFrame, hist,
      now, pgInit, display>>

vars ==
    <<pc, running, start_time, result, screen, projected, lastFrame, hist,
      now, pgInit, display, app>>

(* "main" is the call of main(), line 316; "worker" is the thread that     *)
(* start_splash_async() starts, line 303.                                  *)
Callers == {"main", "worker"}

None == -1

ScreenSizes == { <<1920, 1080>>, <<1365, 767>> }

(* clock.tick(FPS) lets at least one frame interval pass; a slow frame     *)
(* takes longer. *)
TickDeltas == {SlowFrame, SlowFrame + FRAME_INTERVAL}

NotStartedPcs == {"idle", "probe", "import", "setup"}

RunningPcs == {"poll", "render", "draw", "present"}

FinishedPcs == {"quit", "except", "returned", "raised"}

DriverState(t) ==
    IF pc[t] \in NotStartedPcs THEN "NotStarted"
    ELSE IF pc[t] \in RunningPcs THEN "Running"
    ELSE "Finished"

NoHist ==
    [probe |-> "none", set_mode |-> FALSE, surface |-> FALSE,
     acquired |-> FALSE, quitCalled |-> FALSE, quitOk |-> FALSE,
     exitSeen |-> FALSE, pollsAfterExit |-> 0, framesAfterExit |-> 0,
     presentsAfterExit |-> 0]

NoFrame ==
    [drawn |-> FALSE, elapsed |-> 0, alpha |-> 0, fills |-> 0, outlines |-> 0]

Init ==
    /\ pc = [t \in Callers |-> "idle"]
    /\ running = [t \in Callers |-> FALSE]
    /\ start_time = [t \in Callers |-> None]
    /\ result = [t \in Callers |-> "none"]
    /\ screen = [t \in Callers |-> <<0, 0>>]
    /\ projected = [t \in Callers |-> << >>]
    /\ lastFrame = [t \in Callers |-> NoFrame]
    /\ hist = [t \in Callers |-> NoHist]
    /\ now = 0
    /\ pgInit = FALSE
    /\ display = "none"
    /\ app = [fn |-> "none"]

(* pygame.quit(): everything is uninitialised, the display surface goes. *)
PygameQuit ==
    /\ pgInit' = FALSE
    /\ display' = "none"

(* The video system answers: pygame.event.get() and display.flip() raise   *)
(* pygame.error once pygame.quit() has run.                                *)
VideoOk == pgInit /\ display # "none"

(* main(), line 316: a blocking call of show_splash. *)
MainCall ==
    /\ pc["main"] = "idle"
    /\ pc' = [pc EXCEPT !["main"] = "probe"]
    /\ UNCHANGED <<running, start_time, result, screen, projected, lastFrame,
                   hist, now, pgInit, display, app>>

(* start_splash_async(), lines 295-305: show_splash on its own thread. *)
StartSplashAsync ==
    /\ pc["worker"] = "idle"
    /\ pc' = [pc EXCEPT !["worker"] = "probe"]
    /\ UNCHANGED <<running, start_time, result, screen, projected, lastFrame,
                   hist, now, pgInit, display, app>>

(* show_splash going on whatever the probe answers. *)
AfterProbeIgnored(can_show) == "import"

(* Line 123: what show_splash does with the answer of the probe. *)
AfterProbe(can_show) == IF can_show THEN "import" ELSE "returned"

(* _can_show_splash(), lines 34-49, and the test of line 123.              *)
(*   no_display  : linux and DISPLAY unset, line 40                        *)
(*   import_fails: import pygame raises, line 43                           *)
(*   init_fails  : pygame.init() raises, line 44                           *)
(*   quit_fails  : pygame.quit() raises, line 45                           *)
ProbeEnvs == {"no_display", "import_fails", "init_fails", "quit_fails", "ok"}

CanShowSplash(t) ==
    /\ pc[t] = "probe"
    /\ \E env \in ProbeEnvs :
         LET can_show == (env = "ok")
         IN  /\ pc' = [pc EXCEPT ![t] = AfterProbe(can_show)]
             /\ result' = [result EXCEPT ![t] =
                             IF AfterProbe(can_show) = "returned"
                               THEN "False" ELSE @]
             /\ hist' = [hist EXCEPT ![t].probe =
                             IF can_show THEN "true" ELSE "false"]
             /\ CASE env = "ok" -> PygameQuit
                  [] env = "quit_fails" -> pgInit' = TRUE /\ UNCHANGED display
                  [] OTHER -> UNCHANGED <<pgInit, display>>
    /\ UNCHANGED <<running, start_time, screen, projected, lastFrame, now,
                   app>>

(* Lines 126-131: import pygame, import numpy under "except ImportError". *)
ImportOutcomes == {"ok", "ImportError", "Exception"}

AfterImport(o) ==
    CASE o = "ok" -> "setup"
      [] o = "ImportError" -> "returned"
      [] OTHER -> "raised"

ImportDeps(t) ==
    /\ pc[t] = "import"
    /\ \E o \in ImportOutcomes :
         /\ pc' = [pc EXCEPT ![t] = AfterImport(o)]
         /\ result' = [result EXCEPT ![t] =
                         CASE AfterImport(o) = "returned" -> "False"
                           [] AfterImport(o) = "raised" -> "raised"
                           [] OTHER -> @]
    /\ UNCHANGED <<running, start_time, screen, projected, lastFrame, hist,
                   now, pgInit, display, app>>

(* Lines 139-167: the calls of the setup, in order; failAt is the call     *)
(* that raises, or "none".                                                 *)
SetupCalls == <<"init", "Info", "set_mode", "set_caption", "Surface">>

SetupFailures == {"init", "Info", "set_mode", "set_caption", "Surface", "none"}

CallIndex(c) == CHOOSE k \in 1..(Len(SetupCalls) + 1) :
                    IF c = "none" THEN k = Len(SetupCalls) + 1
                                  ELSE SetupCalls[k] = c

(* call c was made (it may be the one that raised) *)
Made(c, failAt) == CallIndex(c) <= CallIndex(failAt)

(* call c returned *)
Done(c, failAt) == CallIndex(c) < CallIndex(failAt)

Setup(t, sizes) ==
    /\ pc[t] = "setup"
    /\ \E failAt \in SetupFailures, size \in sizes :
         /\ pc' = [pc EXCEPT ![t] = IF failAt = "none" THEN "poll" ELSE "except"]
         /\ pgInit' = (pgInit \/ Done("init", failAt))
         /\ display' = IF Done("set_mode", failAt) THEN t ELSE display
         /\ screen' = [screen EXCEPT ![t] =
                          IF Done("Info", failAt) THEN size ELSE @]
         /\ hist' = [hist EXCEPT
                       ![t].acquired = Done("init", failAt),
                       ![t].set_mode = Made("set_mode", failAt),
                       ![t].surface = Made("Surface", failAt)]
         /\ running' = [running EXCEPT ![t] = (failAt = "none")]
    /\ UNCHANGED <<start_time, result, projected, lastFrame, now, app>>

(* Lines 170-175: the kinds of event a poll can return. *)
EventBatches ==
    { {}, {"QUIT"}, {"KEYDOWN_ESCAPE"}, {"KEYDOWN_OTHER"},
      {"QUIT", "KEYDOWN_OTHER"} }

ExitRequested(events) == "QUIT" \in events \/ "KEYDOWN_ESCAPE" \in events

(* The test of the duration with > in place of >=. *)
DurationOverStrict(elapsed) == elapsed > TOTAL_DURATION_MS

(* Line 183: the loop ends when the duration has elapsed. *)
DurationOver(elapsed) == elapsed >= TOTAL_DURATION_MS

(* Lines 168-185: one poll of the event queue, the first read of the       *)
(* clock, and the test of the duration.                                    *)
PollEvents(t, batches) ==
    /\ pc[t] = "poll"
    /\ \/ \* pygame.event.get() or get_ticks() raises
          /\ pc' = [pc EXCEPT ![t] = "except"]
          /\ hist' = [hist EXCEPT ![t].pollsAfterExit =
                         IF hist[t].exitSeen THEN @ + 1 ELSE @]
          /\ UNCHANGED <<running, start_time>>
       \/ /\ VideoOk
          /\ \E events \in batches :
               LET start == IF start_time[t] = None THEN now ELSE start_time[t]
                   elapsed == now - start
                   keep == running[t] /\ ~ExitRequested(events)
               IN  /\ start_time' = [start_time EXCEPT ![t] = start]
                   /\ running' = [running EXCEPT ![t] =
                                     keep /\ ~DurationOver(elapsed)]
                   /\ pc' = [pc EXCEPT ![t] =
                               IF DurationOver(elapsed) THEN "quit" ELSE "render"]
                   /\ hist' = [hist EXCEPT
                                 ![t].pollsAfterExit =
                                     IF hist[t].exitSeen THEN @ + 1 ELSE @,
                                 ![t].exitSeen = @ \/ ExitRequested(events)]
    /\ lastFrame' = [lastFrame EXCEPT ![t] = NoFrame]
    /\ UNCHANGED <<result, screen, projected, now, pgInit, display, app>>

(* Lines 187-212: progress, alpha, and the projected vertices. *)
ComputeFrame(t) ==
    /\ pc[t] = "render"
    /\ \E elapsed \in {now - start_time[t]} :
       \E pv \in {ProjectedVertices(CreateLetterT(LetterSize), elapsed,
                                    screen[t][1], screen[t][2])} :
         IF pv = ZeroDivisionError
           THEN /\ pc' = [pc EXCEPT ![t] = "except"]
                /\ UNCHANGED <<projected, lastFrame>>
           ELSE /\ pc' = [pc EXCEPT ![t] = "draw"]
                /\ projected' = [projected EXCEPT ![t] = pv]
                /\ lastFrame' = [lastFrame EXCEPT ![t] =
                      [NoFrame EXCEPT !.elapsed = elapsed,
                                      !.alpha = AlphaEnvelope(elapsed)]]
    /\ UNCHANGED <<running, start_time, result, screen, hist, now, pgInit,
                   display, app>>

(* Lines 204-205 and 214-275: clear render_surface and draw the faces. *)
DrawFrame(t, patterns) ==
    /\ pc[t] = "draw"
    /\ \E gathered \in {GatherFaces(Faces, projected[t])} :
       \E outcome \in patterns :
       \E r \in {DrawFaces(gathered, lastFrame[t].alpha, outcome)} :
         /\ pc' = [pc EXCEPT ![t] =
                     IF r.status = "ok" THEN "present" ELSE "except"]
         /\ lastFrame' = [lastFrame EXCEPT ![t] =
               [@ EXCEPT !.drawn = TRUE,
                         !.fills = Cardinality(FillsOf(r.draws)),
                         !.outlines = Cardinality(OutlinesOf(r.draws))]]
         /\ hist' = [hist EXCEPT ![t].framesAfterExit =
                        IF hist[t].exitSeen /\ r.draws # << >>
                          THEN @ + 1 ELSE @]
    /\ UNCHANGED <<running, start_time, result, screen, projected, now,
                   pgInit, display, app>>

(* The loop condition "while True". *)
LoopTargetAlways(flag) == "poll"

(* Line 168: the loop condition, evaluated after the frame. *)
LoopTarget(flag) == IF flag THEN "poll" ELSE "quit"

(* Lines 277-281 and the loop test of line 168: blit, flip, tick. *)
Present(t, deltas) ==
    /\ pc[t] = "present"
    /\ \/ \* screen.blit or display.flip raises
          /\ pc' = [pc EXCEPT ![t] = "except"]
          /\ UNCHANGED <<now, hist>>
       \/ /\ VideoOk
          /\ \E d \in deltas : now' = now + d
          /\ pc' = [pc EXCEPT ![t] = LoopTarget(running[t])]
          /\ hist' = [hist EXCEPT ![t].presentsAfterExit =
                         IF hist[t].exitSeen THEN @ + 1 ELSE @]
    /\ UNCHANGED <<running, start_time, result, screen, projected,
                   lastFrame, pgInit, display, app>>

(* Lines 283-284: pygame.quit() after the loop, then return True. *)
Teardown(t) ==
    /\ pc[t] = "quit"
    /\ \/ \* pygame.quit() raises
          /\ pc' = [pc EXCEPT ![t] = "except"]
          /\ hist' = [hist EXCEPT ![t].quitCalled = TRUE, ![t].quitOk = FALSE]
          /\ UNCHANGED <<result, pgInit, display>>
       \/ /\ PygameQuit
          /\ pc' = [pc EXCEPT ![t] = "returned"]
          /\ result' = [result EXCEPT ![t] = "True"]
          /\ hist' = [hist EXCEPT ![t].quitCalled = TRUE, ![t].quitOk = TRUE]
    /\ UNCHANGED <<running, start_time, screen, projected, lastFrame, now,
                   app>>

(* A handler that returns False without calling pygame.quit(). *)
HandlerNoQuit(t, ok) == UNCHANGED <<hist, pgInit, display>>

(* Lines 288-291: the handler's teardown; ok says whether its call of      *)
(* pygame.quit() returns (an exception of it is swallowed, line 290).      *)
HandlerQuit(t, ok) ==
    /\ hist' = [hist EXCEPT ![t].quitCalled = TRUE, ![t].quitOk = ok]
    /\ IF ok THEN PygameQuit ELSE UNCHANGED <<pgInit, display>>

(* Lines 286-292: the handler of every exception of the try block. *)
Except(t) ==
    /\ pc[t] = "except"
    /\ \E ok \in BOOLEAN : HandlerQuit(t, ok)
    /\ pc' = [pc EXCEPT ![t] = "returned"]
    /\ result' = [result EXCEPT ![t] = "False"]
    /\ UNCHANGED <<running, start_time, screen, projected, lastFrame, now,
                   app>>

(* What the surroundings of an invocation can do: the display sizes it    *)
(* may report, the event batches a poll may return, the outcomes of the    *)
(* draw calls of a frame and the time a frame may take.                    *)
MainEnv ==
    [sizes |-> ScreenSizes, batches |-> EventBatches,
     patterns |-> FaultPatterns(Len(Faces)), deltas |-> TickDeltas]

(* The coarser surroundings under which two invocations are interleaved. *)
AsyncEnv ==
    [sizes |-> {<<1920, 1080>>}, batches |-> {{}, {"QUIT"}},
     patterns |-> {AllOk(Len(Faces))}, deltas |-> {CoarseTick}]

ShowSplash(t, env) ==
    \/ CanShowSplash(t)
    \/ ImportDeps(t)
    \/ Setup(t, env.sizes)
    \/ PollEvents(t, env.batches)
    \/ ComputeFrame(t)
    \/ DrawFrame(t, env.patterns)
    \/ Present(t, env.deltas)
    \/ Teardown(t)
    \/ Except(t)

(* One blocking call of show_splash from main(). *)
Next ==
    \/ MainCall
    \/ ShowSplash("main", MainEnv)

Spec == Init /\ [][Next]_vars

(* The steps of show_splash other than the computation and the drawing of  *)
(* a frame.                                                                *)
LightStep(t, env) ==
    \/ CanShowSplash(t)
    \/ ImportDeps(t)
    \/ Setup(t, env.sizes)
    \/ PollEvents(t, env.batches)
    \/ Present(t, env.deltas)
    \/ Teardown(t)
    \/ Except(t)

(* The interpreter keeps running a thread that can take a step: a call of  *)
(* show_splash that has not returned eventually takes its next step.  For  *)
(* ComputeFrame and DrawFrame weak fairness is written out: each is        *)
(* enabled exactly when the program counter is "render", resp. "draw", and *)
(* each of their steps leaves that program counter, so that                *)
(* WF_vars(ComputeFrame(t)) is []<>(pc[t] # "render"), and likewise for    *)
(* DrawFrame.                                                              *)
Fairness(t, env) ==
    /\ WF_vars(LightStep(t, env))
    /\ []<>(pc[t] # "render")
    /\ []<>(pc[t] # "draw")

FairSpec == Spec /\ Fairness("main", MainEnv)

(* main()'s call next to a start_splash_async() thread. *)
AsyncNext ==
    \/ MainCall
    \/ StartSplashAsync
    \/ \E t \in Callers : ShowSplash(t, AsyncEnv)

AsyncSpec == Init /\ [][AsyncNext]_vars

----------------------------------------------------------------------------
(* PureSpec: the arithmetic of a frame applied to bounded inputs; each     *)
(* behaviour applies one function to one input.                            *)

(* Every alpha a frame can have: elapsed ranges over [0, total_duration). *)
FrameAlphas == {AlphaEnvelope(e) : e \in 0..(TOTAL_DURATION_MS - 1)}

ApplyAlphaEnvelope ==
    /\ app.fn = "none"
    /\ \E e \in 0..(TOTAL_DURATION_MS - 1) :
         app' = [fn |-> "alpha", elapsed |-> e, alpha |-> AlphaEnvelope(e)]
    /\ UNCHANGED driverVars

(* Lines 249-273 for one face of average depth z and one frame alpha. *)
ApplyFaceColor ==
    /\ app.fn = "none"
    /\ \E z \in (-MaxDepth)..MaxDepth, a \in FrameAlphas :
       \E c \in FaceColors(z, 1, a) :
         app' = [fn |-> "color", avg_z |-> z, alpha |-> a, color |-> c,
                 outline |-> <<255, 255, 255, OutlineAlpha(a)>>]
    /\ UNCHANGED driverVars

Origin == <<0, 0, 0>>

TestVertices ==
    { Origin, <<FP, FP, FP>>, <<-FP, 2 * FP, -FP>>, <<3 * FP, -FP, 0>> }

ApplyProject ==
    /\ app.fn = "none"
    /\ \E v \in TestVertices, w \in 1..MaxDim, h \in 1..MaxDim,
          d \in 1..MaxDist :
         app' = [fn |-> "project", vertex |-> v, width |-> w, height |-> h,
                 distance |-> d, out |-> Project3dTo2d(v, w, h, d)]
    /\ UNCHANGED driverVars

(* Faces over four projected vertices: a proper one, one with an index     *)
(* equal to the length, one with a larger index, one with index -1 and one *)
(* with an index below -length.                                            *)
TestFaces ==
    { <<0, 1, 2, 3>>, <<0, 1, 2, 4>>, <<0, 7, 2, 3>>, <<0, 1, 2, -1>>,
      <<0, 1, 2, -5>> }

(* Projected vertices: a proper quadrilateral, four equal points, two      *)
(* distinct points, three distinct points.                                 *)
TestProjected ==
    { << <<1, 1, 0>>, <<3, 1, 0>>, <<3, 3, FP>>, <<1, 3, FP>> >>,
      << <<2, 2, 0>>, <<2, 2, 0>>, <<2, 2, FP>>, <<2, 2, FP>> >>,
      << <<1, 1, 0>>, <<1, 1, 0>>, <<3, 3, FP>>, <<3, 3, FP>> >>,
      << <<1, 1, 0>>, <<3, 1, 0>>, <<3, 3, FP>>, <<3, 3, FP>> >> }

ProperFace == <<0, 1, 2, 3>>

(* A frame of two faces: the face under test, then a proper face whose     *)
(* draw calls succeed.                                                     *)
ApplyDrawFaces ==
    /\ app.fn = "none"
    /\ \E face \in TestFaces, pv \in TestProjected,
          oc \in PolygonOutcomes \X PolygonOutcomes :
       \E gathered \in {GatherFaces(<<face, ProperFace>>, pv)} :
       \E r \in {DrawFaces(gathered, 255,
                           [i \in 1..2 |-> IF i = 1 THEN oc ELSE <<"ok", "ok">>])} :
         app' = [fn |-> "faces", face |-> face, pv |-> pv, oc |-> oc,
                 status |-> r.status, fills |-> FillsOf(r.draws),
                 outlines |-> OutlinesOf(r.draws)]
    /\ UNCHANGED driverVars

PureNext ==
    \/ ApplyAlphaEnvelope
    \/ ApplyFaceColor
    \/ ApplyProject
    \/ ApplyDrawFaces

PureSpec == Init /\ [][PureNext]_vars

----------------------------------------------------------------------------
(* Properties *)

LeftShowSplash(t) == pc[t] \in {"returned", "raised"}

(* C1: when the capability probe answers false, show_splash returns False  *)
(* and neither display.set_mode nor the render Surface constructor has     *)
(* been called by it.                                                      *)
C1_ProbeFalseSkips ==
    \A t \in Callers :
        hist[t].probe = "false" =>
            /\ pc[t] = "returned"
            /\ result[t] = "False"
            /\ ~hist[t].set_mode
            /\ ~hist[t].surface

C1_Witness ==
    /\ hist["main"].probe = "false"
    /\ pc["main"] = "returned"
    /\ result["main"] = "False"

(* C2: show_splash never raises to its caller; every failure ends in a     *)
(* False return value.                                                     *)
C2_NeverRaises ==
    \A t \in Callers : pc[t] # "raised" /\ result[t] # "raised"

(* C3: whenever control has left show_splash after it acquired the         *)
(* display, it has called pygame.quit(), and if that call returned, pygame *)
(* is uninitialised and no display surface is left.                        *)
C3_TeardownBeforeReturn ==
    \A t \in Callers :
        LeftShowSplash(t) /\ hist[t].acquired =>
            /\ hist[t].quitCalled
            /\ hist[t].quitOk => (~pgInit /\ display = "none")

C3_Witness ==
    /\ pc["main"] = "returned"
    /\ result["main"] = "False"
    /\ hist["main"].acquired
    /\ hist["main"].set_mode
    /\ hist["main"].quitCalled
    /\ hist["main"].quitOk

(* C4, as claimed: after the poll that observed a quit or escape event no  *)
(* polygon is drawn, no frame is presented and no further poll happens,    *)
(* and the surface is released before show_splash returns.                 *)
C4_NoFrameAfterExit ==
    \A t \in Callers :
        /\ hist[t].framesAfterExit = 0
        /\ hist[t].presentsAfterExit = 0
        /\ hist[t].pollsAfterExit = 0
        /\ (LeftShowSplash(t) /\ hist[t].exitSeen) => hist[t].quitCalled

(* C4, amended: the poll that observes a quit or escape event clears the   *)
(* loop flag at once; no further poll happens, at most the frame of the    *)
(* iteration that observed the event is drawn and presented, and           *)
(* pygame.quit() has been called before show_splash returns.               *)
C4_AtMostOneFrameAfterExit ==
    \A t \in Callers :
        /\ hist[t].pollsAfterExit = 0
        /\ hist[t].framesAfterExit <= 1
        /\ hist[t].presentsAfterExit <= 1
        /\ (hist[t].exitSeen /\ pc[t] \in RunningPcs) => ~running[t]
        /\ (LeftShowSplash(t) /\ hist[t].exitSeen) => hist[t].quitCalled

C4_Witness ==
    /\ hist["main"].exitSeen
    /\ hist["main"].framesAfterExit = 1
    /\ hist["main"].presentsAfterExit = 1
    /\ hist["main"].pollsAfterExit = 0
    /\ pc["main"] = "returned"
    /\ hist["main"].quitCalled

(* The order of the driver's states. *)
Rank(state) ==
    CASE state = "NotStarted" -> 0
      [] state = "Running" -> 1
      [] OTHER -> 2

(* C5: the driver goes NotStarted -> Running -> Finished and never back,   *)
(* Finished is terminal; an iteration that computes elapsed >=             *)
(* total_duration draws nothing and ends the loop, so that every frame     *)
(* drawn has elapsed < total_duration (progress < 1); and a driver that is *)
(* Running eventually is Finished.                                         *)
C5_Lifecycle ==
    /\ [][\A t \in Callers :
            /\ Rank(DriverState(t)') >= Rank(DriverState(t))
            /\ (pc[t]' = "quit" /\ pc[t] # "quit") =>
                   DriverState(t) = "Running"
            /\ (pc[t] = "poll" /\ pc[t]' # "except"
                  /\ DurationOver(now - start_time[t]')) =>
                   (pc[t]' = "quit" /\ ~lastFrame[t]'.drawn)]_vars
    /\ [](\A t \in Callers :
            lastFrame[t].drawn => lastFrame[t].elapsed < TOTAL_DURATION_MS)
    /\ (DriverState("main") = "Running") ~> (DriverState("main") = "Finished")

C5_Witness ==
    /\ pc["main"] = "quit"
    /\ start_time["main"] # None
    /\ now - start_time["main"] >= TOTAL_DURATION_MS
    /\ ~hist["main"].exitSeen

(* C6: while an animation is Running, pygame stays initialised and the     *)
(* display surface is the one its own set_mode made: no other invocation   *)
(* has initialised, replaced or torn down its display.                     *)
C6_ExclusiveDisplay ==
    \A t \in Callers :
        DriverState(t) = "Running" => (pgInit /\ display = t)

C8_ChannelsInRange ==
    app.fn = "color" =>
        /\ \A k \in 1..4 : app.color[k] \in 0..255
        /\ \A k \in 1..4 : app.outline[k] \in 0..255

C8_Witness ==
    /\ app.fn = "color"
    /\ app.avg_z < -150
    /\ app.alpha = 255
    /\ app.color = <<0, 255, 255, 255>>

(* C9, as claimed: the origin projects to exactly (width/2, height/2, 0)   *)
(* for every width, height and distance.                                   *)
C9_OriginExactCentre ==
    (app.fn = "project" /\ app.vertex = Origin) =>
        /\ 2 * app.out[1] = app.width
        /\ 2 * app.out[2] = app.height
        /\ app.out[3] = 0

(* C9, amended: the origin projects to (width/2, height/2, 0) with the     *)
(* halves truncated to whole pixels, which is exactly the centre when      *)
(* width and height are even.                                              *)
C9_OriginTruncatedCentre ==
    (app.fn = "project" /\ app.vertex = Origin) =>
        /\ app.out = <<app.width \div 2, app.height \div 2, 0>>
        /\ (app.width % 2 = 0 /\ app.height % 2 = 0) =>
               (2 * app.out[1] = app.width /\ 2 * app.out[2] = app.height)

C9_Witness ==
    /\ app.fn = "project"
    /\ app.vertex = Origin
    /\ app.width = 5
    /\ app.height = 4
    /\ app.out = <<2, 2, 0>>

IndexOutside(face, pv) == \E k \in 1..Len(face) : face[k] \notin 0..(Len(pv) - 1)

DistinctPoints(face, pv) ==
    { <<pv[face[k] + 1][1], pv[face[k] + 1][2]>> : k \in 1..Len(face) }

====
